---- MODULE Spec2Model ----
(***************************************************************************)
(* A model of the time formatting / time zone conversion service           *)
(* (src/main.py; src/time_service.py holds the same conversion code).      *)
(*                                                                         *)
(* Text that the code parses or renders character by character (time and   *)
(* date strings) is a sequence of one-character strings, so that parsing   *)
(* and formatting are computed and not assumed.  Zone names, which the     *)
(* code only compares and interpolates, are TLA+ strings.                  *)
(* Instants and naive datetimes are counted in seconds since               *)
(* 1970-01-01 00:00:00 on the proleptic Gregorian calendar.                *)
(***************************************************************************)
EXTENDS Integers, Sequences, FiniteSets, TLC

VARIABLES phase, request, response, now

vars == <<phase, request, response, now>>

\* Optional[T]: the empty set is None, {v} is the value v
None == {}

Some(v) == {v}

the(opt) == CHOOSE v \in opt : TRUE

-----------------------------------------------------------------------------
(* Characters and Python's str / int conversions                           *)

DIGITS == <<"0", "1", "2", "3", "4", "5", "6", "7", "8", "9">>

isdigit(c) == \E i \in 1..10 : DIGITS[i] = c

digit_value(c) == (CHOOSE i \in 1..10 : DIGITS[i] = c) - 1

alldigits(s) == \A i \in 1..Len(s) : isdigit(s[i])

RECURSIVE int(_)
int(s) ==
    IF s = <<>> THEN 0
    ELSE 10 * int(SubSeq(s, 1, Len(s) - 1)) + digit_value(s[Len(s)])

RECURSIVE str(_)
str(n) ==
    IF n < 10 THEN <<DIGITS[n + 1]>>
    ELSE str(n \div 10) \o <<DIGITS[(n % 10) + 1]>>

\* f"{n:02d}", "%H", "%M", "%S", "%Y": n zero-padded to at least w digits
zfill(n, w) ==
    LET s == str(n)
    IN  IF Len(s) >= w THEN s ELSE [i \in 1..(w - Len(s)) |-> "0"] \o s

isspace(c) == c \in {" ", "\t", "\n"}

RECURSIVE lstrip(_)
lstrip(s) ==
    IF s # <<>> /\ isspace(s[1]) THEN lstrip(Tail(s)) ELSE s

RECURSIVE rstrip(_)
rstrip(s) ==
    IF s # <<>> /\ isspace(s[Len(s)]) THEN rstrip(SubSeq(s, 1, Len(s) - 1)) ELSE s

strip(s) == rstrip(lstrip(s))

\* the fields of s between occurrences of the one-character separator sep
RECURSIVE split(_, _)
split(s, sep) ==
    IF \A i \in 1..Len(s) : s[i] # sep THEN <<s>>
    ELSE LET k == CHOOSE i \in 1..Len(s) :
                      s[i] = sep /\ \A j \in 1..(i - 1) : s[j] # sep
         IN  <<SubSeq(s, 1, k - 1)>> \o split(SubSeq(s, k + 1, Len(s)), sep)

-----------------------------------------------------------------------------
(* Outcomes of a call: a returned value or a raised exception              *)

Return(v) == [raised |-> "no", value |-> v]

ValueError == [raised |-> "ValueError"]

HTTPException(status_code, detail) ==
    [raised |-> "HTTPException", status_code |-> status_code, detail |-> detail]

-----------------------------------------------------------------------------
(* main.py: parse_time and format_time_standard                            *)

\* datetime.time(hour, minute[, second])
time(hour, minute, second) == [hour |-> hour, minute |-> minute, second |-> second]

\* re.match(r'^(\d{1,2}):(\d{2})$', s): the two groups, or None
\* match_hh_mm with a minute of one or two digits: ^(\d{1,2}):(\d{1,2})$
match_h_m(s) ==
    LET n == Len(s)
        colons == {i \in 1..n : s[i] = ":"}
        i == CHOOSE c \in colons : TRUE
    IN  IF /\ Cardinality(colons) = 1
           /\ Len(SubSeq(s, 1, i - 1)) \in {1, 2} /\ alldigits(SubSeq(s, 1, i - 1))
           /\ Len(SubSeq(s, i + 1, n)) \in {1, 2} /\ alldigits(SubSeq(s, i + 1, n))
        THEN Some(<<SubSeq(s, 1, i - 1), SubSeq(s, i + 1, n)>>)
        ELSE None

\* re.match(r'^(\d{1,2}):(\d{2})$', s): the two groups, or None
match_hh_mm(s) ==
    LET n == Len(s)
    IN  IF /\ n \in {4, 5}
           /\ s[n - 2] = ":"
           /\ alldigits(SubSeq(s, 1, n - 3))
           /\ alldigits(SubSeq(s, n - 1, n))
        THEN Some(<<SubSeq(s, 1, n - 3), SubSeq(s, n - 1, n)>>)
        ELSE None

parse_time(time_str) ==
    LET s == strip(time_str)
        match == match_hh_mm(s)
    IN  IF match = None THEN ValueError
        ELSE LET hour == int(the(match)[1])
                 minute == int(the(match)[2])
             IN  IF hour < 0 \/ hour > 23 THEN ValueError
                 ELSE IF minute < 0 \/ minute > 59 THEN ValueError
                 ELSE Return(time(hour, minute, 0))

\* format_time_standard with noon taken for a morning hour (hour <= 12)
format_time_standard_noon_am(time_obj) ==
    LET hour == time_obj.hour
        minute == time_obj.minute
        hour_12 == IF hour = 0 THEN 12
                   ELSE IF hour <= 12 THEN hour
                   ELSE hour - 12
        period == IF hour <= 12 THEN <<"A", "M">> ELSE <<"P", "M">>
    IN  str(hour_12) \o <<":">> \o zfill(minute, 2) \o <<" ">> \o period

format_time_standard(time_obj) ==
    LET hour == time_obj.hour
        minute == time_obj.minute
        hour_12 == IF hour = 0 THEN 12
                   ELSE IF hour < 12 THEN hour
                   ELSE IF hour = 12 THEN 12
                   ELSE hour - 12
        period == IF hour = 0 THEN <<"A", "M">>
                  ELSE IF hour < 12 THEN <<"A", "M">>
                  ELSE IF hour = 12 THEN <<"P", "M">>
                  ELSE <<"P", "M">>
    IN  str(hour_12) \o <<":">> \o zfill(minute, 2) \o <<" ">> \o period

-----------------------------------------------------------------------------
(* The calendar of Python's datetime (proleptic Gregorian)                 *)

is_leap(year) == year % 4 = 0 /\ (year % 100 # 0 \/ year % 400 = 0)

days_in_month(year, month) ==
    IF month = 2 THEN (IF is_leap(year) THEN 29 ELSE 28)
    ELSE IF month \in {4, 6, 9, 11} THEN 30
    ELSE 31

\* days from 1970-01-01 to year-month-day
days_from_civil(year, month, day) ==
    LET y == IF month <= 2 THEN year - 1 ELSE year
        era == y \div 400
        yoe == y - era * 400
        mp == IF month > 2 THEN month - 3 ELSE month + 9
        doy == (153 * mp + 2) \div 5 + day - 1
        doe == yoe * 365 + yoe \div 4 - yoe \div 100 + doy
    IN  era * 146097 + doe - 719468

\* the year, month and day that lie z days after 1970-01-01
civil_from_days(z) ==
    LET zz == z + 719468
        era == zz \div 146097
        doe == zz - era * 146097
        yoe == (doe - doe \div 1460 + doe \div 36524 - doe \div 146096) \div 365
        doy == doe - (365 * yoe + yoe \div 4 - yoe \div 100)
        mp == (5 * doy + 2) \div 153
        d == doy - (153 * mp + 2) \div 5 + 1
        m == IF mp < 10 THEN mp + 3 ELSE mp - 9
    IN  [year |-> (yoe + era * 400) + (IF m <= 2 THEN 1 ELSE 0), month |-> m, day |-> d]

\* datetime(year=, month=, day=, hour=, minute=, second=), naive, as seconds
datetime(year, month, day, hour, minute, second) ==
    days_from_civil(year, month, day) * 86400 + hour * 3600 + minute * 60 + second

\* the calendar date and the clock reading of a naive datetime
date_of(dt) == civil_from_days(dt \div 86400)

time_of(dt) ==
    LET sod == dt % 86400
    IN  time(sod \div 3600, (sod % 3600) \div 60, sod % 60)

\* 0 = Sunday .. 6 = Saturday (1970-01-01 was a Thursday)
weekday(days) == (days + 4) % 7

\* the n-th Sunday of a month, in days from 1970-01-01
nth_sunday(year, month, n) ==
    LET first == days_from_civil(year, month, 1)
    IN  first + ((7 - weekday(first)) % 7) + 7 * (n - 1)

-----------------------------------------------------------------------------
(* datetime.strptime for the three formats the code uses                   *)

\* %H: 2[0-3]|[0-1]\d|\d
directive_H(t) == Len(t) \in {1, 2} /\ alldigits(t) /\ int(t) <= 23

\* %M: [0-5]\d|\d
directive_M(t) == Len(t) \in {1, 2} /\ alldigits(t) /\ int(t) <= 59

\* %S: 6[0-1]|[0-5]\d|\d
directive_S(t) == Len(t) \in {1, 2} /\ alldigits(t) /\ int(t) <= 61

\* %I: 1[0-2]|0[1-9]|[1-9]
directive_I(t) == Len(t) \in {1, 2} /\ alldigits(t) /\ int(t) \in 1..12

\* %m: 1[0-2]|0[1-9]|[1-9]
directive_m(t) == Len(t) \in {1, 2} /\ alldigits(t) /\ int(t) \in 1..12

\* %d: 3[0-1]|[1-2]\d|0[1-9]|[1-9]| [1-9]
directive_d(t) ==
    \/ Len(t) \in {1, 2} /\ alldigits(t) /\ int(t) \in 1..31
    \/ Len(t) = 2 /\ t[1] = " " /\ isdigit(t[2]) /\ t[2] # "0"

\* %Y: \d\d\d\d
directive_Y(t) == Len(t) = 4 /\ alldigits(t)

\* datetime.strptime(s, "%H:%M:%S"): the clock reading (the date is 1900-01-01)
strptime_HMS(s) ==
    LET f == split(s, ":")
    IN  IF Len(f) # 3 THEN ValueError
        ELSE IF ~(directive_H(f[1]) /\ directive_M(f[2]) /\ directive_S(f[3]))
        THEN ValueError
        ELSE IF int(f[3]) > 59 THEN ValueError
        ELSE Return(time(int(f[1]), int(f[2]), int(f[3])))

\* datetime.strptime(s, "%Y-%m-%d"): the calendar date (the time is midnight)
strptime_Ymd(s) ==
    LET f == split(s, "-")
    IN  IF Len(f) # 3 THEN ValueError
        ELSE IF ~(directive_Y(f[1]) /\ directive_m(f[2]) /\ directive_d(f[3]))
        THEN ValueError
        ELSE LET year == int(f[1])
                 month == int(f[2])
                 day == int(lstrip(f[3]))
             IN  IF year < 1 \/ day > days_in_month(year, month) THEN ValueError
                 ELSE Return([year |-> year, month |-> month, day |-> day])

\* %p: am|pm, matched without regard to case
directive_p(t) ==
    /\ Len(t) = 2
    /\ t[1] \in {"a", "A", "p", "P"}
    /\ t[2] \in {"m", "M"}

\* strptime_IMp with 12 taken for an hour like the others (12 AM -> 12, 12 PM -> 24)
strptime_IMp_twelve(s) ==
    LET f == split(s, ":")
        n == IF Len(f) = 2 THEN Len(f[2]) ELSE 0
        k == IF n >= 2 /\ isdigit(f[2][1]) /\ isdigit(f[2][2]) THEN 2 ELSE 1
    IN  IF Len(f) # 2 \/ n < k + 3 THEN ValueError
        ELSE IF ~(/\ directive_I(f[1])
                  /\ directive_M(SubSeq(f[2], 1, k))
                  /\ \A i \in (k + 1)..(n - 2) : isspace(f[2][i])
                  /\ directive_p(SubSeq(f[2], n - 1, n)))
        THEN ValueError
        ELSE Return(time(int(f[1]) + (IF f[2][n - 1] \in {"p", "P"} THEN 12 ELSE 0),
                         int(SubSeq(f[2], 1, k)), 0))

\* datetime.strptime(s, "%I:%M %p"): the clock reading; the blank of the format
\* matches one or more blanks, and 12 AM is hour 0, 12 PM hour 12
strptime_IMp(s) ==
    LET f == split(s, ":")
        n == IF Len(f) = 2 THEN Len(f[2]) ELSE 0
        k == IF n >= 2 /\ isdigit(f[2][1]) /\ isdigit(f[2][2]) THEN 2 ELSE 1
    IN  IF Len(f) # 2 \/ n < k + 3 THEN ValueError
        ELSE IF ~(/\ directive_I(f[1])
                  /\ directive_M(SubSeq(f[2], 1, k))
                  /\ \A i \in (k + 1)..(n - 2) : isspace(f[2][i])
                  /\ directive_p(SubSeq(f[2], n - 1, n)))
        THEN ValueError
        ELSE Return(time((int(f[1]) % 12)
                             + (IF f[2][n - 1] \in {"p", "P"} THEN 12 ELSE 0),
                         int(SubSeq(f[2], 1, k)), 0))

\* parsed.strftime("%H:%M")
strftime_HM(parsed) == zfill(parsed.hour, 2) \o <<":">> \o zfill(parsed.minute, 2)

-----------------------------------------------------------------------------
(* main.py: the zone registry                                              *)

SUPPORTED_ABBR == <<"EST", "CST", "PST", "UTC">>

ABBR_TO_IANA ==
    [abbr \in {"EST", "CST", "PST", "UTC"} |->
        CASE abbr = "EST" -> "US/Eastern"
          [] abbr = "CST" -> "US/Central"
          [] abbr = "PST" -> "US/Pacific"
          [] abbr = "UTC" -> "UTC"]

IANA_TO_ABBR ==
    [iana \in {ABBR_TO_IANA[k] : k \in DOMAIN ABBR_TO_IANA} |->
        CHOOSE k \in DOMAIN ABBR_TO_IANA : ABBR_TO_IANA[k] = iana]

\* ', '.join(l)
RECURSIVE join(_)
join(l) ==
    IF l = <<>> THEN ""
    ELSE IF Len(l) = 1 THEN l[1]
    ELSE l[1] \o ", " \o join(Tail(l))

\* resolve_abbr whose error names the string but not the accepted abbreviations
resolve_abbr_no_list(tz) ==
    IF \E i \in 1..Len(SUPPORTED_ABBR) : SUPPORTED_ABBR[i] = tz THEN Return(tz)
    ELSE IF tz \in DOMAIN IANA_TO_ABBR THEN Return(IANA_TO_ABBR[tz])
    ELSE HTTPException(400, "Unknown or unsupported timezone: " \o tz)

resolve_abbr(tz) ==
    IF \E i \in 1..Len(SUPPORTED_ABBR) : SUPPORTED_ABBR[i] = tz THEN Return(tz)
    ELSE IF tz \in DOMAIN IANA_TO_ABBR THEN Return(IANA_TO_ABBR[tz])
    ELSE HTTPException(400, "Unknown or unsupported timezone: " \o tz
                            \o ". Allowed: " \o join(SUPPORTED_ABBR))

-----------------------------------------------------------------------------
(* pytz: the zone rules of the four zones and localize / fromutc           *)

\* the calendar years whose daylight-saving transitions the tables hold
NumYears == 2

Years == 2023..(2023 + NumYears - 1)

\* a (utcoffset, dst, tzname) entry of a zone's _transition_info, in seconds
tzinfo(utcoffset, dst, tzname) ==
    [utcoffset |-> utcoffset, dst |-> dst, tzname |-> tzname]

standard_utcoffset(iana) ==
    CASE iana = "US/Eastern" -> -5 * 3600
      [] iana = "US/Central" -> -6 * 3600
      [] iana = "US/Pacific" -> -8 * 3600
      [] iana = "UTC" -> 0

standard_tzname(iana) ==
    CASE iana = "US/Eastern" -> "EST"
      [] iana = "US/Central" -> "CST"
      [] iana = "US/Pacific" -> "PST"
      [] iana = "UTC" -> "UTC"

daylight_tzname(iana) ==
    CASE iana = "US/Eastern" -> "EDT"
      [] iana = "US/Central" -> "CDT"
      [] iana = "US/Pacific" -> "PDT"
      [] iana = "UTC" -> "UTC"

\* daylight time starts at 02:00 standard time on the second Sunday of March
dst_start_utc(iana, year) ==
    nth_sunday(year, 3, 2) * 86400 + 2 * 3600 - standard_utcoffset(iana)

\* and ends at 02:00 daylight time on the first Sunday of November
dst_end_utc(iana, year) ==
    nth_sunday(year, 11, 1) * 86400 + 2 * 3600 - (standard_utcoffset(iana) + 3600)

\* _utc_transition_times: the instants (UTC) at which the zone's offset changes,
\* after a first entry that stands for the time before the first of them
utc_transition_times(iana) ==
    IF iana = "UTC" THEN <<0>>
    ELSE [i \in 1..(1 + 2 * NumYears) |->
            IF i = 1 THEN 0
            ELSE LET year == 2023 + (i - 2) \div 2
                 IN  IF i % 2 = 0 THEN dst_start_utc(iana, year)
                     ELSE dst_end_utc(iana, year)]

\* _transition_info: the entry in force from the transition of the same index
transition_info(iana) ==
    LET std == tzinfo(standard_utcoffset(iana), 0, standard_tzname(iana))
        dst == tzinfo(standard_utcoffset(iana) + 3600, 3600, daylight_tzname(iana))
    IN  IF iana = "UTC" THEN <<std>>
        ELSE [i \in 1..(1 + 2 * NumYears) |-> IF i % 2 = 0 THEN dst ELSE std]

\* pytz.timezone(iana), for the four names of ABBR_TO_IANA
pytz_timezone ==
    [iana \in DOMAIN IANA_TO_ABBR |->
        [zone |-> iana,
         utc_transition_times |-> utc_transition_times(iana),
         transition_info |-> transition_info(iana)]]

\* pytz.timezone knows each of the four names, so the except branch is dead
abbr_to_tzinfo(abbr) == pytz_timezone[ABBR_TO_IANA[abbr]]

\* bisect.bisect_right(a, x) for a sorted a
bisect_right(a, x) == Cardinality({i \in 1..Len(a) : a[i] <= x})

\* the _transition_info entry that bisecting the transition times at dt selects
info_at(tz, dt) ==
    LET idx == bisect_right(tz.utc_transition_times, dt) - 1
    IN  tz.transition_info[(IF idx < 0 THEN 0 ELSE idx) + 1]

\* an aware datetime: the wall-clock reading and the tzinfo entry it carries
aware(naive, inf) == [naive |-> naive, tzinfo |-> inf]

\* fromutc that bisects the transition times at the local reading of dt under
\* the standard offset, not at dt
fromutc_local_bisect(tz, dt) ==
    LET inf == info_at(tz, dt + tz.transition_info[1].utcoffset)
    IN  aware(dt + inf.utcoffset, inf)

\* tz.fromutc(dt): the instant dt (UTC) as an aware datetime of the zone
fromutc(tz, dt) ==
    LET inf == info_at(tz, dt)
    IN  aware(dt + inf.utcoffset, inf)

AmbiguousTimeError == [raised |-> "AmbiguousTimeError"]

NonExistentTimeError == [raised |-> "NonExistentTimeError"]

\* one pass of localize's loop: the reading under the offset in force a day
\* earlier or later, kept when the zone shows dt at the instant it denotes
localize_candidate(tz, dt, delta) ==
    LET inf == info_at(tz, dt + delta)
        loc_dt == fromutc(tz, dt - inf.utcoffset)
    IN  IF loc_dt.naive = dt THEN {loc_dt} ELSE {}

\* tz.localize(dt) with pytz's default is_dst=False: a reading in a gap or a fold
\* is taken under the standard offset and nothing is raised
localize_guess(tz, dt) ==
    IF tz.zone = "UTC" THEN Return(aware(dt, tz.transition_info[1]))
    ELSE LET possible_loc_dt ==
                 localize_candidate(tz, dt, -86400) \cup localize_candidate(tz, dt, 86400)
         IN  IF Cardinality(possible_loc_dt) = 1 THEN Return(the(possible_loc_dt))
             ELSE Return(aware(dt, tz.transition_info[1]))

\* localize that takes a reading in a fold under the standard offset and
\* raises only for a reading in a gap
localize_fold_standard(tz, dt) ==
    IF tz.zone = "UTC" THEN Return(aware(dt, tz.transition_info[1]))
    ELSE LET possible_loc_dt ==
                 localize_candidate(tz, dt, -86400) \cup localize_candidate(tz, dt, 86400)
         IN  IF Cardinality(possible_loc_dt) = 1 THEN Return(the(possible_loc_dt))
             ELSE IF Cardinality(possible_loc_dt) = 0 THEN NonExistentTimeError
             ELSE Return(aware(dt, tz.transition_info[1]))

\* tz.localize(dt, is_dst=None)
localize(tz, dt) ==
    IF tz.zone = "UTC" THEN Return(aware(dt, tz.transition_info[1]))
    ELSE LET possible_loc_dt ==
                 localize_candidate(tz, dt, -86400) \cup localize_candidate(tz, dt, 86400)
         IN  IF Cardinality(possible_loc_dt) = 1 THEN Return(the(possible_loc_dt))
             ELSE IF Cardinality(possible_loc_dt) = 0 THEN NonExistentTimeError
             ELSE AmbiguousTimeError

\* the instant (UTC) of an aware datetime
utc_of(dt) == dt.naive - dt.tzinfo.utcoffset

\* astimezone that renders every instant under the target's first (standard) entry
astimezone_standard(dt, tz) ==
    aware(utc_of(dt) + tz.transition_info[1].utcoffset, tz.transition_info[1])

\* dt.astimezone(tz)
astimezone(dt, tz) == fromutc(tz, utc_of(dt))

\* dt.strftime("%H:%M:%S")
strftime_HMS(dt) ==
    LET t == time_of(dt.naive)
    IN  zfill(t.hour, 2) \o <<":">> \o zfill(t.minute, 2) \o <<":">> \o zfill(t.second, 2)

-----------------------------------------------------------------------------
(* main.py: the helpers of the conversion endpoint                         *)

parse_time_hms(hms) ==
    LET r == strptime_HMS(strip(hms))
    IN  IF r.raised = "ValueError"
        THEN HTTPException(400, "Invalid time_str format. Expected 'HH:MM:SS'.")
        ELSE r

\* date_s is an Optional[str]; "not date_s" holds of None and of the empty string
parse_date(date_s) ==
    IF date_s = None \/ the(date_s) = <<>> THEN Return(None)
    ELSE LET r == strptime_Ymd(strip(the(date_s)))
         IN  IF r.raised = "ValueError"
             THEN HTTPException(400, "Invalid date_str format. Expected 'YYYY-MM-DD'.")
             ELSE Return(Some(r.value))

-----------------------------------------------------------------------------
(* main.py: the two endpoints                                              *)

\* what FastAPI sends for a raised HTTPException
error_response(e) == [status_code |-> e.status_code, detail |-> e.detail]

\* POST /format/standard
format_time(req) ==
    LET time_obj == parse_time(req.time)
    IN  IF time_obj.raised = "ValueError"
        THEN [status_code |-> 400, detail |-> "ValueError"]
        ELSE [status_code |-> 200,
              body |-> [original_time |-> req.time,
                        formatted_time |-> format_time_standard(time_obj.value),
                        format |-> "standard"]]

\* naive_source with today's date read in UTC, not in the source zone
naive_source_utc_today(date_dt, hms_dt, from_tz, utcnow) ==
    IF date_dt # None
    THEN datetime(the(date_dt).year, the(date_dt).month, the(date_dt).day,
                  hms_dt.hour, hms_dt.minute, hms_dt.second)
    ELSE LET today == date_of(utcnow)
         IN  datetime(today.year, today.month, today.day,
                      hms_dt.hour, hms_dt.minute, hms_dt.second)

\* the naive source datetime: the supplied date, or today's date in the source
\* zone at the instant utcnow, with the supplied clock reading
naive_source(date_dt, hms_dt, from_tz, utcnow) ==
    IF date_dt # None
    THEN datetime(the(date_dt).year, the(date_dt).month, the(date_dt).day,
                  hms_dt.hour, hms_dt.minute, hms_dt.second)
    ELSE LET today == date_of(fromutc(from_tz, utcnow).naive)
         IN  datetime(today.year, today.month, today.day,
                      hms_dt.hour, hms_dt.minute, hms_dt.second)

\* convert_parsed with is_dst read from the localized source time
convert_parsed_source_dst(req, from_abbr, to_abbr, hms_dt, date_dt, utcnow) ==
    LET from_tz == abbr_to_tzinfo(from_abbr)
        to_tz == abbr_to_tzinfo(to_abbr)
        naive_src == naive_source(date_dt, hms_dt, from_tz, utcnow)
        localized_src == localize(from_tz, naive_src)
    IN  IF localized_src.raised \in {"AmbiguousTimeError", "NonExistentTimeError"}
        THEN [status_code |-> 400,
              detail |-> "Failed to localize source time: " \o localized_src.raised]
        ELSE LET converted == astimezone(localized_src.value, to_tz)
                 is_dst == localized_src.value.tzinfo.dst # 0
             IN  [status_code |-> 200,
                  body |-> [original_time |-> req.time_str,
                            original_timezone |-> from_abbr,
                            converted_time |-> strftime_HMS(converted),
                            converted_timezone |-> to_abbr,
                            is_dst |-> is_dst]]

\* the part of convert_time after its inputs are parsed
convert_parsed(req, from_abbr, to_abbr, hms_dt, date_dt, utcnow) ==
    LET from_tz == abbr_to_tzinfo(from_abbr)
        to_tz == abbr_to_tzinfo(to_abbr)
        naive_src == naive_source(date_dt, hms_dt, from_tz, utcnow)
        localized_src == localize(from_tz, naive_src)
    IN  IF localized_src.raised \in {"AmbiguousTimeError", "NonExistentTimeError"}
        THEN [status_code |-> 400,
              detail |-> "Failed to localize source time: " \o localized_src.raised]
        ELSE LET converted == astimezone(localized_src.value, to_tz)
                 is_dst == converted.tzinfo.dst # 0
             IN  [status_code |-> 200,
                  body |-> [original_time |-> req.time_str,
                            original_timezone |-> from_abbr,
                            converted_time |-> strftime_HMS(converted),
                            converted_timezone |-> to_abbr,
                            is_dst |-> is_dst]]

\* POST /time/convert; utcnow is what datetime.now(pytz.utc) reads
convert_time(req, utcnow) ==
    LET from_abbr == resolve_abbr(req.from_timezone)
        to_abbr == resolve_abbr(req.to_timezone)
        hms_dt == parse_time_hms(req.time_str)
        date_dt == parse_date(req.date_str)
    IN  IF from_abbr.raised = "HTTPException" THEN error_response(from_abbr)
        ELSE IF to_abbr.raised = "HTTPException" THEN error_response(to_abbr)
        ELSE IF hms_dt.raised = "HTTPException" THEN error_response(hms_dt)
        ELSE IF date_dt.raised = "HTTPException" THEN error_response(date_dt)
        ELSE convert_parsed(req, from_abbr.value, to_abbr.value,
                            hms_dt.value, date_dt.value, utcnow)

\* whether the handler reads the clock: it does when no date is given
reads_clock(req) ==
    /\ parse_date(req.date_str) = Return(None)
    /\ resolve_abbr(req.from_timezone).raised = "no"
    /\ resolve_abbr(req.to_timezone).raised = "no"
    /\ parse_time_hms(req.time_str).raised = "no"

-----------------------------------------------------------------------------
(* The requests the model sends                                            *)

\* a number written plainly and zero-padded to two digits
numerals(N) == {str(n) : n \in N} \cup {zfill(n, 2) : n \in N}

\* a text as it is, with one leading blank, and with one trailing blank
padded(S) == S \cup {<<" ">> \o x : x \in S} \cup {x \o <<" ">> : x \in S}

HourTokens ==
    numerals({0, 1, 7, 9, 11, 12, 13, 23, 24, 30})
        \cup {<<>>, <<"a">>, <<"0", "0", "7">>, <<"-", "1">>}

MinuteTokens == numerals({0, 5, 59, 60}) \cup {<<>>, <<"5", "a">>}

SecondTokens == numerals({0, 7, 59, 60, 61, 62}) \cup {<<>>, <<"x">>}

\* time strings, well-formed and not: H:M and H:M:S over the tokens, padded,
\* and a few other shapes
TimeStrings ==
    padded({h \o <<":">> \o m : h \in HourTokens, m \in MinuteTokens}
           \cup {h \o <<":">> \o m \o <<":">> \o x :
                    h \in HourTokens, m \in MinuteTokens, x \in SecondTokens})
        \cup {<<>>, <<" ">>, <<"1", "3", "1", "5">>, <<"1", "3", ".", "1", "5">>,
              <<"1", "3", ":", "1", "5", " ", "P", "M">>,
              <<"1", "3", ":", "1", "5", ":", "0", "0", ":", "0", "0">>,
              <<"1", "3", " ", ":", "1", "5", ":", "0", "0">>}

\* HH:MM:SS
hms(hour, minute, second) ==
    zfill(hour, 2) \o <<":">> \o zfill(minute, 2) \o <<":">> \o zfill(second, 2)

\* YYYY-MM-DD
ymd(year, month, day) ==
    zfill(year, 4) \o <<"-">> \o zfill(month, 2) \o <<"-">> \o zfill(day, 2)

\* every full hour of the day, the half and the last second of the hours in
\* which the clocks change, and 13:15:00, 22:30:00 and 23:59:59
ClockReadings ==
    {hms(h, 0, 0) : h \in 0..23}
        \cup {hms(h, ms[1], ms[2]) : h \in 0..3, ms \in {<<30, 0>>, <<59, 59>>}}
        \cup {hms(13, 15, 0), hms(22, 30, 0), hms(23, 59, 59)}

\* of each year: the days around both transitions, the turn of the year, and a
\* summer day
CalendarDays ==
    UNION {{nth_sunday(y, 3, 2) + k : k \in {-1, 0, 1}}
            \cup {nth_sunday(y, 11, 1) + k : k \in {-1, 0, 1}}
            \cup {days_from_civil(y, 1, 1), days_from_civil(y, 7, 4),
                  days_from_civil(y, 12, 31)} : y \in Years}

DateStrings ==
    {ymd(civil_from_days(z).year, civil_from_days(z).month, civil_from_days(z).day) :
        z \in CalendarDays}

YearTokens ==
    {zfill(y, 4) : y \in Years}
        \cup {<<"0", "0", "0", "0">>, <<"2", "4">>, <<"0", "2", "0", "2", "4">>,
              <<"2", "0", "2", "a">>}

MonthTokens == numerals({0, 1, 2, 4, 12, 13}) \cup {<<>>, <<" ", "1">>}

DayTokens ==
    numerals({0, 1, 28, 29, 30, 31, 32}) \cup {<<>>, <<" ", "5">>, <<"1", "a">>}

\* date strings, well-formed and not
OddDateStrings ==
    padded({y \o <<"-">> \o m \o <<"-">> \o d :
                y \in YearTokens, m \in MonthTokens, d \in DayTokens})
        \cup {y \o <<"/">> \o m \o <<"/">> \o d :
                y \in YearTokens, m \in {<<"0", "1">>}, d \in {<<"1", "5">>}}
        \cup {<<>>, <<" ">>, <<"2", "0", "2", "4", "0", "1", "1", "5">>,
              <<"2", "0", "2", "4", "-", "0", "1">>,
              <<"2", "0", "2", "4", "-", "0", "1", "-", "1", "5", "-", "0", "1">>}

ZoneStrings ==
    {"EST", "CST", "PST", "UTC", "US/Eastern", "US/Central", "US/Pacific",
     "est", "Est", "EDT", "MARS", "", " EST", "America/New_York"}

\* instants (UTC) at which datetime.now(pytz.utc) is read: around midnight of a
\* transition day, where the zones disagree on the date, and at midday
Nows ==
    {datetime(2024, 3, 10, 3, 30, 0), datetime(2024, 3, 11, 2, 30, 0),
     datetime(2024, 11, 3, 5, 0, 0), datetime(2024, 11, 4, 6, 30, 0),
     datetime(2024, 7, 4, 12, 0, 0), datetime(2024, 1, 1, 3, 0, 0)}

convert_request(time_str, from_timezone, to_timezone, date_str) ==
    [endpoint |-> "/time/convert", time_str |-> time_str,
     from_timezone |-> from_timezone, to_timezone |-> to_timezone,
     date_str |-> date_str]

\* HH:MM and H:MM for every minute of the day
ClockStrings ==
    {h \o <<":">> \o zfill(m, 2) : h \in numerals(0..23), m \in 0..59}

format_request(time_str) == [endpoint |-> "/format/standard", time |-> time_str]

-----------------------------------------------------------------------------
(* The service: a request is handled, then its response is sent            *)

NoRequest == [endpoint |-> "none"]

NoResponse == [status_code |-> 0]

Init ==
    /\ phase = "idle"
    /\ request = NoRequest
    /\ response = NoResponse
    /\ now = 0

\* the requests: every time string, and every minute of the day
FormatTime ==
    /\ phase = "idle"
    /\ \E t \in TimeStrings \cup ClockStrings :
        /\ request' = format_request(t)
        /\ response' = format_time(format_request(t))
    /\ phase' = "responded"
    /\ UNCHANGED now

\* the handler runs on one request
Convert(req) ==
    \E utcnow \in (IF reads_clock(req) THEN Nows ELSE {0}) :
        /\ request' = req
        /\ now' = utcnow
        /\ response' = convert_time(req, utcnow)

\* the requests: every pair of supported zones with every clock reading on
\* every calendar day and without a date; every pair of zone strings; every
\* time string; every date string
ConvertTime ==
    /\ phase = "idle"
    /\ \/ \E t \in ClockReadings, f \in {"EST", "CST", "PST", "UTC"},
             z \in {"EST", "CST", "PST", "UTC"},
             d \in {Some(x) : x \in DateStrings} \cup {None} :
                Convert(convert_request(t, f, z, d))
       \/ \E f \in ZoneStrings, z \in ZoneStrings :
                Convert(convert_request(hms(13, 15, 0), f, z, Some(ymd(2024, 7, 4))))
       \/ \E t \in TimeStrings :
                Convert(convert_request(t, "EST", "PST", Some(ymd(2024, 7, 4))))
       \/ \E d \in OddDateStrings :
                Convert(convert_request(hms(13, 15, 0), "EST", "PST", Some(d)))
    /\ phase' = "responded"

\* the response is sent and the request's values are discarded
Respond ==
    /\ phase = "responded"
    /\ phase' = "idle"
    /\ request' = NoRequest
    /\ response' = NoResponse
    /\ now' = 0

Next == FormatTime \/ ConvertTime \/ Respond

Spec == Init /\ [][Next]_vars

-----------------------------------------------------------------------------
(* The 12-hour rendering on its own: a clock time is rendered by            *)
(* format_time_standard and the rendering is parsed back as the test does   *)

\* the seconds the clock times are drawn with
Seconds == {0, 1, 30, 59}

\* datetime.time objects
TimeObjects == {time(h, m, x) : h \in 0..23, m \in 0..59, x \in Seconds}

InitRendering ==
    /\ phase = "given"
    /\ request \in {[time_obj |-> t] : t \in TimeObjects}
    /\ response = NoResponse
    /\ now = 0

\* format_time_standard(time_obj)
FormatStandard ==
    /\ phase = "given"
    /\ response' = [formatted_time |-> format_time_standard(request.time_obj)]
    /\ phase' = "formatted"
    /\ UNCHANGED <<request, now>>

\* the local conversion of the test: strptime with %I:%M %p, strftime with %H:%M
ToMilitary ==
    /\ phase = "formatted"
    /\ LET parsed == strptime_IMp(response.formatted_time)
       IN  response' =
               [formatted_time |-> response.formatted_time,
                parsed |-> parsed,
                local_mil |-> IF parsed.raised = "no" THEN strftime_HM(parsed.value)
                              ELSE <<>>]
    /\ phase' = "parsed"
    /\ UNCHANGED <<request, now>>

NextRendering == FormatStandard \/ ToMilitary

RenderingSpec == InitRendering /\ [][NextRendering]_vars

-----------------------------------------------------------------------------
(* Properties                                                              *)

Formatted == phase = "responded" /\ request.endpoint = "/format/standard"

Converted == phase = "responded" /\ request.endpoint = "/time/convert"

\* the hour of the 12-hour clock for each hour 0..23 of the 24-hour clock
Hour12 == <<12, 1, 2, 3, 4, 5, 6, 7, 8, 9, 10, 11, 12, 1, 2, 3, 4, 5, 6, 7, 8, 9, 10, 11>>

\* the 12-hour rendering the specification asks for: the hour without a leading
\* zero, the minute in two digits, a blank, AM before noon and PM from noon on
Rendering12(hour, minute) ==
    LET h == Hour12[hour + 1]
    IN  (IF h >= 10 THEN <<"1", DIGITS[h - 10 + 1]>> ELSE <<DIGITS[h + 1]>>)
            \o <<":", DIGITS[(minute \div 10) + 1], DIGITS[(minute % 10) + 1], " ">>
            \o (IF hour < 12 THEN <<"A", "M">> ELSE <<"P", "M">>)

\* the time string of the request in flight without its surrounding blanks
Stripped == strip(request.time)

\* C1: for every valid clock time (hour 0..23, minute 0..59) the formatting
\* endpoint succeeds and renders the hour without a leading zero, the minute in
\* two digits and AM/PM with 0 -> 12 AM, 1..11 -> AM, 12 -> 12 PM, 13..23 ->
\* hour-12 PM; 00:00, 01:05, 12:00, 13:15 and 23:59 give 12:00 AM, 1:05 AM,
\* 12:00 PM, 1:15 PM and 11:59 PM.
C1_FormatStandard ==
    Formatted =>
        /\ request.time \in ClockStrings => response.status_code = 200
        /\ LET time_obj == parse_time(request.time)
           IN  time_obj.raised = "no" =>
                  /\ time_obj.value.hour \in 0..23 /\ time_obj.value.minute \in 0..59
                  /\ response.status_code = 200
                  /\ response.body.formatted_time =
                        Rendering12(time_obj.value.hour, time_obj.value.minute)
        /\ Stripped = <<"0", "0", ":", "0", "0">> =>
              response.body.formatted_time = <<"1", "2", ":", "0", "0", " ", "A", "M">>
        /\ Stripped = <<"0", "1", ":", "0", "5">> =>
              response.body.formatted_time = <<"1", ":", "0", "5", " ", "A", "M">>
        /\ Stripped = <<"1", "2", ":", "0", "0">> =>
              response.body.formatted_time = <<"1", "2", ":", "0", "0", " ", "P", "M">>
        /\ Stripped = <<"1", "3", ":", "1", "5">> =>
              response.body.formatted_time = <<"1", ":", "1", "5", " ", "P", "M">>
        /\ Stripped = <<"2", "3", ":", "5", "9">> =>
              response.body.formatted_time = <<"1", "1", ":", "5", "9", " ", "P", "M">>

\* noon has been formatted
C1_Witness ==
    /\ Formatted
    /\ Stripped = <<"1", "2", ":", "0", "0">>
    /\ response.status_code = 200
    /\ response.body.formatted_time = <<"1", "2", ":", "0", "0", " ", "P", "M">>

-----------------------------------------------------------------------------
(* Civil time, stated from the zones' rules alone                          *)

\* the spans of daylight time of each zone: from the start to before the end
DaylightSpans ==
    [iana \in DOMAIN IANA_TO_ABBR |->
        IF iana = "UTC" THEN {}
        ELSE {<<dst_start_utc(iana, y), dst_end_utc(iana, y)>> : y \in Years}]

StandardOffset == [iana \in DOMAIN IANA_TO_ABBR |-> standard_utcoffset(iana)]

\* whether daylight time is in force in the zone at the instant u (UTC)
InDaylight(iana, u) == \E span \in DaylightSpans[iana] : span[1] <= u /\ u < span[2]

\* the UTC offset in force in the zone at the instant u
OffsetInForce(iana, u) ==
    StandardOffset[iana] + (IF InDaylight(iana, u) THEN 3600 ELSE 0)

\* the instants at which the zone's clocks show the reading wall: one for a
\* unique reading, two for one in a fall-back fold, none for one in a gap
InstantsOf(iana, wall) ==
    {u \in {wall - StandardOffset[iana], wall - StandardOffset[iana] - 3600} :
        u + OffsetInForce(iana, u) = wall}

TwoDigits(n) == <<DIGITS[(n \div 10) + 1], DIGITS[(n % 10) + 1]>>

\* HH:MM:SS of a number of seconds since midnight
ClockText(sod) ==
    TwoDigits(sod \div 3600) \o <<":">> \o TwoDigits((sod % 3600) \div 60)
        \o <<":">> \o TwoDigits(sod % 60)

\* a conversion whose zones, time and date were all accepted
WellFormed ==
    /\ Converted
    /\ resolve_abbr(request.from_timezone).raised = "no"
    /\ resolve_abbr(request.to_timezone).raised = "no"
    /\ parse_time_hms(request.time_str).raised = "no"
    /\ parse_date(request.date_str).raised = "no"

SourceZone == ABBR_TO_IANA[resolve_abbr(request.from_timezone).value]

TargetZone == ABBR_TO_IANA[resolve_abbr(request.to_timezone).value]

\* the source civil time of the request in flight
SourceWall ==
    naive_source(parse_date(request.date_str).value,
                 parse_time_hms(request.time_str).value,
                 abbr_to_tzinfo(resolve_abbr(request.from_timezone).value), now)

SourceInstants == InstantsOf(SourceZone, SourceWall)

\* C2: a source civil time that is unique in the source zone is converted to the
\* reading, in the target zone, of the same instant: source time - source
\* offset + target offset, modulo 24 hours; 13:15:00 from EST to PST gives
\* 10:15:00, and original_time echoes the time string of the request.
C2_ConvertUnique ==
    WellFormed =>
        LET src == SourceZone
            tgt == TargetZone
            wall == SourceWall
            instants == InstantsOf(src, wall)
            u == the(instants)
        IN  Cardinality(instants) = 1 =>
                /\ response.status_code = 200
                /\ response.body.converted_time =
                      ClockText((wall - OffsetInForce(src, u) + OffsetInForce(tgt, u))
                                    % 86400)
                /\ response.body.original_time = request.time_str
                /\ (/\ src = "US/Eastern" /\ tgt = "US/Pacific"
                    /\ wall % 86400 = 13 * 3600 + 15 * 60) =>
                       response.body.converted_time =
                           <<"1", "0", ":", "1", "5", ":", "0", "0">>

\* 13:15:00 of a summer day has been converted from EST to PST
C2_Witness ==
    /\ Converted
    /\ request.from_timezone = "EST" /\ request.to_timezone = "PST"
    /\ request.time_str = <<"1", "3", ":", "1", "5", ":", "0", "0">>
    /\ request.date_str = Some(<<"2", "0", "2", "4", "-", "0", "7", "-", "0", "4">>)
    /\ response.status_code = 200
    /\ response.body.converted_time = <<"1", "0", ":", "1", "5", ":", "0", "0">>

\* C3: a civil time inside the source zone's spring-forward gap is answered with
\* a 400 error, never with a conversion result.
C3_GapRejected ==
    (WellFormed /\ SourceInstants = {}) =>
        /\ response.status_code = 400
        /\ response.detail = "Failed to localize source time: NonExistentTimeError"

\* 02:30:00 of a spring-forward day in the Central zone has been refused
C3_Witness ==
    /\ WellFormed
    /\ SourceZone = "US/Central"
    /\ SourceWall = datetime(2024, 3, 10, 2, 30, 0)
    /\ SourceInstants = {}
    /\ response.status_code = 400

\* C4 as stated: a civil time inside the source zone's fall-back fold is never
\* answered with an error; it is converted under the later (standard) offset.
C4_FoldResolved ==
    WellFormed =>
        LET src == SourceZone
            wall == SourceWall
            later == wall - StandardOffset[src]
        IN  Cardinality(InstantsOf(src, wall)) = 2 =>
                /\ response.status_code = 200
                /\ response.body.converted_time =
                      ClockText((later + OffsetInForce(TargetZone, later)) % 86400)

\* C4 as the code has it: a civil time inside the source zone's fall-back fold
\* is answered with a 400 error, at every call and whatever the clock reads.
C4_FoldRejected ==
    (WellFormed /\ Cardinality(SourceInstants) = 2) =>
        /\ response.status_code = 400
        /\ response.detail = "Failed to localize source time: AmbiguousTimeError"

\* 01:30:00 of a fall-back day in the Eastern zone has been refused
C4_Witness ==
    /\ WellFormed
    /\ SourceZone = "US/Eastern"
    /\ SourceWall = datetime(2024, 11, 3, 1, 30, 0)
    /\ Cardinality(SourceInstants) = 2
    /\ response.status_code = 400

\* the abbreviation each accepted zone identifier stands for
Canonical ==
    [z \in {"EST", "CST", "PST", "UTC", "US/Eastern", "US/Central", "US/Pacific"} |->
        CASE z \in {"EST", "US/Eastern"} -> "EST"
          [] z \in {"CST", "US/Central"} -> "CST"
          [] z \in {"PST", "US/Pacific"} -> "PST"
          [] z = "UTC" -> "UTC"]

UnknownZone(tz) ==
    "Unknown or unsupported timezone: " \o tz \o ". Allowed: EST, CST, PST, UTC"

\* C5: each of EST, CST, PST, UTC (case-sensitively) resolves to itself and each
\* alias US/Eastern, US/Central, US/Pacific to its abbreviation, so that an
\* alias is converted as its abbreviation is; every other string is refused
\* with a 400 whose message holds the string and the accepted abbreviations.
C5_ResolveAbbr ==
    Converted =>
        LET f == request.from_timezone
            t == request.to_timezone
        IN  /\ f \notin DOMAIN Canonical =>
                  response.status_code = 400 /\ response.detail = UnknownZone(f)
            /\ (f \in DOMAIN Canonical /\ t \notin DOMAIN Canonical) =>
                  response.status_code = 400 /\ response.detail = UnknownZone(t)
            /\ (f \in DOMAIN Canonical /\ t \in DOMAIN Canonical) =>
                  /\ response.status_code = 200 =>
                        /\ response.body.original_timezone = Canonical[f]
                        /\ response.body.converted_timezone = Canonical[t]
                  /\ response.status_code = 400 =>
                        response.detail \notin {UnknownZone(f), UnknownZone(t)}
                  /\ response =
                        convert_time([request EXCEPT !.from_timezone = Canonical[f],
                                                     !.to_timezone = Canonical[t]], now)

\* an alias has been accepted and an unknown name refused
C5_Witness ==
    /\ Converted
    /\ request.from_timezone = "US/Eastern"
    /\ request.to_timezone = "MARS"
    /\ response.status_code = 400
    /\ response.detail = "Unknown or unsupported timezone: MARS. Allowed: EST, CST, PST, UTC"

\* C6: in every successful conversion is_dst tells whether the offset in force in
\* the target zone at the converted instant differs from the target zone's
\* standard offset, whatever the source zone is in; it is false for UTC.
C6_IsDstOfTarget ==
    (Converted /\ response.status_code = 200) =>
        LET tgt == TargetZone
            instants == SourceInstants
        IN  /\ Cardinality(instants) = 1
            /\ response.body.is_dst =
                  (OffsetInForce(tgt, the(instants)) # StandardOffset[tgt])
            /\ tgt = "UTC" => response.body.is_dst = FALSE

\* a reading of Eastern daylight time has been converted to Pacific standard
\* time, in the hours of a spring-forward day between the two zones' transitions
C6_Witness ==
    /\ Converted
    /\ response.status_code = 200
    /\ SourceZone = "US/Eastern" /\ TargetZone = "US/Pacific"
    /\ InDaylight(SourceZone, the(SourceInstants))
    /\ ~InDaylight(TargetZone, the(SourceInstants))
    /\ response.body.is_dst = FALSE

\* a successful conversion of a reading on a date the request gave
ConvertedOnDate ==
    /\ Converted
    /\ response.status_code = 200
    /\ parse_date(request.date_str).value # None

\* the conversion of the result back from the target to the source zone, on the
\* same date
Back ==
    convert_time(convert_request(response.body.converted_time, request.to_timezone,
                                 request.from_timezone, request.date_str), 0)

\* how far the clocks of the zone src are ahead of those of the zone tgt at u
Lead(src, tgt, u) == OffsetInForce(src, u) - OffsetInForce(tgt, u)

\* C7 as stated: converting the result back from the target to the source zone
\* on the same date succeeds and gives the original time again.
C7_RoundTrip ==
    ConvertedOnDate =>
        LET back == Back
        IN  /\ back.status_code = 200
            /\ back.body.converted_time = ClockText(SourceWall % 86400)

\* C7 as the code has it: converting back succeeds exactly when the converted
\* reading is a unique civil time of the target zone on the request's date, and
\* then gives the original time exactly when the source zone leads the target
\* zone at that instant as it did at the original one; it does whenever the
\* converted instant falls on the request's date and is not in a fold there.
C7_RoundTripWhere ==
    ConvertedOnDate =>
        LET src == SourceZone
            tgt == TargetZone
            wall == SourceWall
            u == the(InstantsOf(src, wall))
            target_wall == u + OffsetInForce(tgt, u)
            back_wall == (wall \div 86400) * 86400 + (target_wall % 86400)
            back_instants == InstantsOf(tgt, back_wall)
            back == Back
            original == ClockText(wall % 86400)
        IN  /\ back.status_code = 200 <=> Cardinality(back_instants) = 1
            /\ Cardinality(back_instants) = 1 =>
                  (back.body.converted_time = original
                      <=> Lead(src, tgt, the(back_instants)) = Lead(src, tgt, u))
            /\ (target_wall \div 86400 = wall \div 86400
                    /\ Cardinality(back_instants) = 1) =>
                  /\ back.status_code = 200
                  /\ back.body.converted_time = original

\* a summer reading has been converted to a zone where the date is the same, and
\* converting it back gives the original time
C7_Witness ==
    /\ ConvertedOnDate
    /\ SourceZone = "US/Eastern" /\ TargetZone = "UTC"
    /\ SourceWall = datetime(2024, 7, 4, 10, 0, 0)
    /\ response.body.converted_time = <<"1", "4", ":", "0", "0", ":", "0", "0">>
    /\ Back.status_code = 200
    /\ Back.body.converted_time = <<"1", "0", ":", "0", "0", ":", "0", "0">>

\* the texts between the separators of s
FieldsOf(s, sep) ==
    LET colons == {i \in 1..Len(s) : s[i] = sep}
        after(i) == IF \E c \in colons : c > i
                    THEN CHOOSE c \in colons : c > i /\ \A e \in colons : e > i => c <= e
                    ELSE Len(s) + 1
        RECURSIVE from(_)
        from(i) == <<SubSeq(s, i + 1, after(i) - 1)>>
                      \o (IF after(i) > Len(s) THEN <<>> ELSE from(after(i)))
    IN  from(0)

\* a number of lo..hi written in decimal with the given numbers of digits
Written(t, widths, lo, hi) ==
    /\ Len(t) \in widths
    /\ \A i \in 1..Len(t) : t[i] \in {"0", "1", "2", "3", "4", "5", "6", "7", "8", "9"}
    /\ int(t) >= lo /\ int(t) <= hi

\* H:MM or HH:MM with hour 0..23 and minute 0..59
ShapeHMM(s) ==
    LET f == FieldsOf(s, ":")
    IN  Len(f) = 2 /\ Written(f[1], {1, 2}, 0, 23) /\ Written(f[2], {2}, 0, 59)

\* HH:MM:SS with hour 0..23 and minute and second 0..59
ShapeHHMMSS(s) ==
    LET f == FieldsOf(s, ":")
    IN  /\ Len(f) = 3
        /\ Written(f[1], {2}, 0, 23) /\ Written(f[2], {2}, 0, 59)
        /\ Written(f[3], {2}, 0, 59)

\* hour, minute and second, each in one or two digits: H:M:S up to HH:MM:SS
ShapeHMS(s) ==
    LET f == FieldsOf(s, ":")
    IN  /\ Len(f) = 3
        /\ Written(f[1], {1, 2}, 0, 23) /\ Written(f[2], {1, 2}, 0, 59)
        /\ Written(f[3], {1, 2}, 0, 59)

\* a conversion whose zone names were both accepted
ZonesAccepted ==
    /\ Converted
    /\ request.from_timezone \in DOMAIN Canonical
    /\ request.to_timezone \in DOMAIN Canonical

\* the conversion was refused for its time string
TimeRefused ==
    /\ response.status_code = 400
    /\ response.detail = "Invalid time_str format. Expected 'HH:MM:SS'."

LastDayOf(year, month) ==
    IF month = 2
    THEN (IF (year % 4 = 0 /\ year % 100 # 0) \/ year % 400 = 0 THEN 29 ELSE 28)
    ELSE IF month \in {4, 6, 9, 11} THEN 30 ELSE 31

\* YYYY-MM-DD naming a day of the calendar
ShapeYYYYMMDD(s) ==
    LET f == FieldsOf(s, "-")
    IN  /\ Len(f) = 3
        /\ Written(f[1], {4}, 1, 9999) /\ Written(f[2], {2}, 1, 12)
        /\ Written(f[3], {2}, 1, 31)
        /\ int(f[3]) <= LastDayOf(int(f[1]), int(f[2]))

\* the day field without the blank that may stand for its first digit
DayDigits(t) == IF Len(t) = 2 /\ t[1] = " " THEN <<t[2]>> ELSE t

\* a year of four digits, a month and a day of one or two, the day also with a
\* blank for its first digit, naming a day of the calendar
ShapeYMD(s) ==
    LET f == FieldsOf(s, "-")
    IN  /\ Len(f) = 3
        /\ Written(f[1], {4}, 1, 9999) /\ Written(f[2], {1, 2}, 1, 12)
        /\ Written(DayDigits(f[3]), IF f[3] = DayDigits(f[3]) THEN {1, 2} ELSE {1}, 1, 31)
        /\ int(DayDigits(f[3])) <= LastDayOf(int(f[1]), int(f[2]))

\* a conversion with a value for the date whose zones and time were accepted
DateSupplied ==
    /\ ZonesAccepted
    /\ ShapeHMS(strip(request.time_str))
    /\ request.date_str # None

\* the conversion was refused for its date string
DateRefused ==
    /\ response.status_code = 400
    /\ response.detail = "Invalid date_str format. Expected 'YYYY-MM-DD'."

\* C9: a supplied date string is accepted only when it is YYYY-MM-DD and names
\* a day of the calendar; every other one, the empty string and a month or day
\* without its leading zero included, is answered with a 400.
C9_ParseDate ==
    DateSupplied => (~DateRefused <=> ShapeYYYYMMDD(the(request.date_str)))

\* what parse_date lets through: the empty string is taken for no date at all
\* and the conversion runs on today's date; any other string is accepted exactly
\* when, blanks around it aside, it is a four-digit year, a month and a day of
\* one or two digits (the day also with a blank for its first digit) naming a
\* day of the calendar, and is then converted as the same date written
\* YYYY-MM-DD; every other string is answered with a 400.
ParseDateAccepts ==
    DateSupplied =>
        LET date_s == the(request.date_str)
            f == FieldsOf(strip(date_s), "-")
        IN  /\ date_s = <<>> =>
                  /\ ~DateRefused
                  /\ response = convert_time([request EXCEPT !.date_str = None], now)
            /\ date_s # <<>> =>
                  /\ ~DateRefused <=> ShapeYMD(strip(date_s))
                  /\ ~DateRefused =>
                        response =
                            convert_time(
                                [request EXCEPT !.date_str =
                                    Some(ymd(int(f[1]), int(f[2]), int(DayDigits(f[3]))))],
                                now)

\* the rendering of every hour and minute
Renderings ==
    [hm \in (0..23) \X (0..59) |-> format_time_standard(time(hm[1], hm[2], 0))]

ParsedBack == phase = "parsed"

\* C10 as stated: parsing the 12-hour rendering of a clock time back gives the
\* clock time again, seconds included.
C10_RoundTrip ==
    ParsedBack => response.parsed = Return(request.time_obj)

\* C10 as the code has it: the rendering has no seconds, so parsing it back
\* gives the hour and the minute of the clock time with second 0, which is the
\* clock time itself exactly when its second is 0; clock times are rendered
\* alike exactly when they agree in hour and minute; 12:00 AM, 1:05 AM,
\* 12:00 PM, 1:15 PM and 11:59 PM convert back to 00:00, 01:05, 12:00, 13:15
\* and 23:59.
C10_RoundTripWhere ==
    ParsedBack =>
        LET t == request.time_obj
            text == response.formatted_time
        IN  /\ response.parsed = Return(time(t.hour, t.minute, 0))
            /\ response.parsed = Return(t) <=> t.second = 0
            /\ response.local_mil = TwoDigits(t.hour) \o <<":">> \o TwoDigits(t.minute)
            /\ \A hm \in DOMAIN Renderings :
                  Renderings[hm] = text <=> hm = <<t.hour, t.minute>>
            /\ text = <<"1", "2", ":", "0", "0", " ", "A", "M">> =>
                  response.local_mil = <<"0", "0", ":", "0", "0">>
            /\ text = <<"1", ":", "0", "5", " ", "A", "M">> =>
                  response.local_mil = <<"0", "1", ":", "0", "5">>
            /\ text = <<"1", "2", ":", "0", "0", " ", "P", "M">> =>
                  response.local_mil = <<"1", "2", ":", "0", "0">>
            /\ text = <<"1", ":", "1", "5", " ", "P", "M">> =>
                  response.local_mil = <<"1", "3", ":", "1", "5">>
            /\ text = <<"1", "1", ":", "5", "9", " ", "P", "M">> =>
                  response.local_mil = <<"2", "3", ":", "5", "9">>

\* half a minute past 13:15 has been rendered and parsed back as 13:15:00
C10_Witness ==
    /\ ParsedBack
    /\ request.time_obj = time(13, 15, 30)
    /\ response.formatted_time = <<"1", ":", "1", "5", " ", "P", "M">>
    /\ response.parsed = Return(time(13, 15, 0))
    /\ response.local_mil = <<"1", "3", ":", "1", "5">>

\* a conversion without a date whose zones and time were accepted
ConvertedToday ==
    /\ ZonesAccepted
    /\ ShapeHMS(strip(request.time_str))
    /\ request.date_str \in {None, Some(<<>>)}

\* the day, counted from 1970-01-01, that the zone's calendar shows at the
\* instant u
DayIn(iana, u) == (u + OffsetInForce(iana, u)) \div 86400

\* C11: a conversion without a date takes the supplied time on the date that the
\* source zone's calendar shows at the current instant, also where UTC or the
\* target zone show another date; that civil time is refused if it falls in the
\* source zone's gap or fold on that date and is converted otherwise.
C11_TodayInSourceZone ==
    ConvertedToday =>
        LET src == SourceZone
            tgt == TargetZone
            f == FieldsOf(strip(request.time_str), ":")
            wall == DayIn(src, now) * 86400
                        + int(f[1]) * 3600 + int(f[2]) * 60 + int(f[3])
            instants == InstantsOf(src, wall)
            u == the(instants)
        IN  /\ instants = {} =>
                  /\ response.status_code = 400
                  /\ response.detail =
                        "Failed to localize source time: NonExistentTimeError"
            /\ Cardinality(instants) = 2 =>
                  /\ response.status_code = 400
                  /\ response.detail =
                        "Failed to localize source time: AmbiguousTimeError"
            /\ Cardinality(instants) = 1 =>
                  /\ response.status_code = 200
                  /\ response.body.converted_time =
                        ClockText((u + OffsetInForce(tgt, u)) % 86400)
                  /\ response.body.is_dst =
                        (OffsetInForce(tgt, u) # StandardOffset[tgt])

\* 01:00:00 has been converted from PST to UTC at an instant of the evening of a
\* spring-forward day in the Pacific zone, when UTC already shows the next day:
\* it is the 01:00 of standard time, before the clocks changed
C11_Witness ==
    /\ ConvertedToday
    /\ SourceZone = "US/Pacific" /\ TargetZone = "UTC"
    /\ now = datetime(2024, 3, 11, 2, 30, 0)
    /\ DayIn(SourceZone, now) # DayIn("UTC", now)
    /\ request.time_str = <<"0", "1", ":", "0", "0", ":", "0", "0">>
    /\ response.status_code = 200
    /\ response.body.converted_time = <<"0", "9", ":", "0", "0", ":", "0", "0">>

====
